---- MODULE Spec2Model ----
(***************************************************************************)
(* Model of the Pico W APC1 air-quality monitor:                           *)
(*   - lib/apc1/__init__.py : the APC1 register decoder                    *)
(*   - main.py              : the Wi-Fi bootstrap, the AP-mode credential  *)
(*                            form, and the sensor page                    *)
(* SpecSensor drives the decoder, SpecWifi drives the bootstrap.           *)
(***************************************************************************)
EXTENDS Integers, Sequences, FiniteSets, TLC

VARIABLES
    \* ---- APC1 decoder ----
    mem,          \* the sensor's register file (one of MemImages)
    call,         \* "idle" | "all" (inside get_all_sensor_data's loop) | "done"
    op,           \* the method last called
    arg,          \* register_name passed to get_sensor_data
    idx,          \* position of get_all_sensor_data's for loop in _REG_MAP (1-based)
    all_data,     \* get_all_sensor_data's local dict
    bus,          \* I2C transactions of the current call, in order:
                  \* <<device address, register, bytes asked for, bytes handed back>>
    raw,          \* raw_data of the last read of the current call
    ret,          \* what the caller of the current call receives
    \* ---- main.py ----
    pc,           \* position of the main program
    file,         \* contents of wifi_config.py (a sequence of characters)
    SSID,         \* wifi_config.SSID as imported at startup
    PASSWORD,     \* wifi_config.PASSWORD as imported at startup
    link,         \* whether the station interface is associated (wlan.isconnected())
    sta_active,   \* network.WLAN(STA_IF).active()
    ap_active,    \* network.WLAN(AP_IF) has been switched on
    ap_up,        \* what ap.active() reports
    curr_attempt, \* connect_wifi's local counter
    waits,        \* number of time.sleep(1) calls made by connect_wifi in this run
    polls,        \* results of wlan.isconnected() in this run, in order
    connects,     \* arguments of the wlan.connect calls of this run, in order
    exc,          \* exception raised and not (yet) handled: "none" or its class name
    timer_armed,  \* the one-shot reboot timer is pending
    events,       \* order of the effects of the last POST /submit
    submitted,    \* the form fields of this run's POST /submit, <<>> if none
    expected,     \* the form fields submitted before the reset that began this run
    entered_ap,   \* start_ap_mode has been entered in this run
    was_connected,\* connect_wifi returned normally in this run
    sensor,       \* the module-level APC1 object has been constructed
    served,       \* number of sensor-data pages rendered in this run
    resets        \* machine.reset() calls so far

sensorVars == <<mem, call, op, arg, idx, all_data, bus, raw, ret>>
wifiVars == <<pc, file, SSID, PASSWORD, link, sta_active, ap_active, ap_up,
              curr_attempt, waits, polls, connects, exc, timer_armed, events,
              submitted, expected, entered_ap, was_connected, sensor, served,
              resets>>
vars == <<sensorVars, wifiVars>>

(***************************************************************************)
(* Bounds of the model                                                     *)
(***************************************************************************)
\* the most bytes a (faulty) I2C read hands back
MaxDelivered == 3
\* machine.reset() calls explored
MaxResets == 2
\* sensor pages rendered per run that are counted
MaxServed == 2

(***************************************************************************)
(* lib/apc1/__init__.py                                                    *)
(***************************************************************************)
\* Row layout: <<name, address, num_bytes, scale, unit, description>>.
\* The scale is kept in tenths (1 -> 10, 0.1 -> 1), so that a value is an
\* integer number of tenths: 0x0064 at scale 0.1 is 100 tenths, i.e. 10.0.
_REG_MAP == <<
    <<"PM1.0",    4, 2, 10, "ug/m3", "PM1.0 Mass Concentration">>,
    <<"PM2.5",    6, 2, 10, "ug/m3", "PM2.5 Mass Concentration">>,
    <<"PM10",     8, 2, 10, "ug/m3", "PM10 Mass Concentration">>,
    <<"TVOC",    28, 2, 10, "ppb",   "TVOC output">>,
    <<"eCO2",    30, 2, 10, "ppm",   "Output in ppm CO2 equivalents">>,
    <<"T-comp",  34, 2,  1, "C",     "Compensated Temperature">>,
    <<"RH-comp", 36, 2,  1, "%",     "Compensated Relative Humidity">>,
    <<"T-raw",   38, 2,  1, "C",     "Raw Temperature">>,
    <<"RH-raw",  40, 2,  1, "%",     "Raw Relative Humidity">>,
    <<"AQI",     58, 1, 10, "",      "AQI according to TVOC value">> >>

_DEFAULT_DEVICE_ADDR == 18

\* self.device_addr as main.py constructs the sensor (no device_addr argument)
device_addr == _DEFAULT_DEVICE_ADDR

RegNames == {_REG_MAP[i][1] : i \in 1..Len(_REG_MAP)}

\* {reg[0]: reg for reg in self._REG_MAP}: a later row wins over an earlier one
reg_map_dict ==
    [n \in RegNames |->
        LET rows == {i \in 1..Len(_REG_MAP) : _REG_MAP[i][1] = n}
            last == CHOOSE i \in rows : \A j \in rows : j <= i
        IN _REG_MAP[last]]

\* Register files the sensor may present, by name; MemByte(a) is the byte at
\* address a of the register file in `mem'
MemImages == {"all_00", "all_FF", "odd_64", "even_01", "own_address"}

MemByte(a) ==
    CASE mem = "all_00" -> 0
      [] mem = "all_FF" -> 255
      [] mem = "odd_64" -> (IF a % 2 = 1 THEN 100 ELSE 0)
      [] mem = "even_01" -> (IF a % 2 = 0 THEN 1 ELSE 0)
      [] mem = "own_address" -> a % 256

\* self.readfrom_mem(self.device_addr, register, num_bytes); `delivered' is the
\* number of bytes the bus hands back (num_bytes on a healthy bus)
read_sensor_data(register, num_bytes, delivered) ==
    [i \in 1..delivered |-> MemByte(register + i - 1)]

\* mutant: the bytes are taken least significant first
from_bytes_little(raw_data) ==
    LET RECURSIVE le(_)
        le(s) == IF s = <<>> THEN 0 ELSE s[1] + 256 * le(Tail(s))
    IN le(raw_data)

\* int.from_bytes(raw_data, 'big')
from_bytes_big(raw_data) ==
    LET RECURSIVE be(_)
        be(s) == IF s = <<>> THEN 0
                 ELSE 256 * be(SubSeq(s, 1, Len(s) - 1)) + s[Len(s)]
    IN be(raw_data)

\* raise ValueError(msg), after the reads in `reads', the last of which gave raw_data
Raise(msg, reads, raw_data) ==
    [kind |-> "ValueError", msg |-> msg, result |-> <<>>, reads |-> reads,
     raw |-> raw_data]

\* return result, after the reads in `reads', the last of which gave raw_data
Return(result, reads, raw_data) ==
    [kind |-> "return", msg |-> "", result |-> result, reads |-> reads,
     raw |-> raw_data]

\* one readfrom_mem transaction as the bus sees it
Transaction(register, num_bytes, raw_data) ==
    << <<device_addr, register, num_bytes, Len(raw_data)>> >>

\* mutant: the length check is dropped
get_sensor_data_unchecked(register_name, delivered) ==
    IF register_name \notin DOMAIN reg_map_dict
    THEN Raise("Register not found", <<>>, <<>>)
    ELSE LET register_info == reg_map_dict[register_name]
             raw_data == read_sensor_data(register_info[2], register_info[3], delivered)
         IN Return(<<from_bytes_big(raw_data) * register_info[4],
                     register_info[5], register_info[6]>>,
                   Transaction(register_info[2], register_info[3], raw_data), raw_data)

\* mutant: the register is read before the name is checked
get_sensor_data_read_first(register_name, delivered) ==
    LET known == register_name \in DOMAIN reg_map_dict
        register_info == IF known THEN reg_map_dict[register_name] ELSE _REG_MAP[1]
        raw_data == read_sensor_data(register_info[2], register_info[3], delivered)
        reads == Transaction(register_info[2], register_info[3], raw_data)
    IN IF ~known THEN Raise("Register not found", reads, raw_data)
       ELSE IF Len(raw_data) # register_info[3]
            THEN Raise("Expected bytes", reads, raw_data)
            ELSE Return(<<from_bytes_big(raw_data) * register_info[4],
                          register_info[5], register_info[6]>>, reads, raw_data)

\* APC1.get_sensor_data: the outcome, and the I2C reads it issued
get_sensor_data(register_name, delivered) ==
    IF register_name \notin DOMAIN reg_map_dict
    THEN Raise("Register not found", <<>>, <<>>)
    ELSE LET register_info == reg_map_dict[register_name]
             register_address == register_info[2]
             num_bytes == register_info[3]
             scale == register_info[4]
             unit == register_info[5]
             description == register_info[6]
             raw_data == read_sensor_data(register_address, num_bytes, delivered)
             reads == Transaction(register_address, num_bytes, raw_data)
         IN IF Len(raw_data) # num_bytes
            THEN Raise("Expected bytes", reads, raw_data)
            ELSE Return(<<from_bytes_big(raw_data) * scale, unit, description>>,
                        reads, raw_data)

\* no call has produced an outcome yet
NoOutcome == [kind |-> "pending", msg |-> "", result |-> <<>>]

\* names a caller may pass: the table's and some that are not in it
RequestNames == RegNames \cup {"PM2_5", "pm10", "aqi", ""}

wifiIdle == UNCHANGED wifiVars

\* a call of sensor.get_sensor_data(register_name)
GetSensorData ==
    /\ call = "idle"
    /\ \E register_name \in RequestNames, delivered \in 0..MaxDelivered :
          LET r == get_sensor_data(register_name, delivered)
          IN /\ op' = "get_sensor_data"
             /\ arg' = register_name
             /\ bus' = r.reads
             /\ raw' = r.raw
             /\ ret' = [kind |-> r.kind, msg |-> r.msg, result |-> r.result]
    /\ call' = "done"
    /\ UNCHANGED <<mem, idx, all_data>>
    /\ wifiIdle

\* get_all_sensor_data, line 122: all_data = {} and the loop starts
GetAllBegin ==
    /\ call = "idle"
    /\ call' = "all"
    /\ op' = "get_all_sensor_data"
    /\ arg' = ""
    /\ idx' = 1
    /\ all_data' = <<>>
    /\ bus' = <<>>
    /\ raw' = <<>>
    /\ ret' = NoOutcome
    /\ UNCHANGED mem
    /\ wifiIdle

\* mutant: a failed register is skipped and the loop goes on
GetAllIterSkipping ==
    /\ call = "all"
    /\ idx <= Len(_REG_MAP)
    /\ \E delivered \in 0..MaxDelivered :
          LET register_name == _REG_MAP[idx][1]
              r == get_sensor_data(register_name, delivered)
          IN /\ bus' = bus \o r.reads
             /\ raw' = r.raw
             /\ all_data' =
                  IF r.kind = "return"
                  THEN [n \in DOMAIN all_data \cup {register_name} |->
                          IF n = register_name
                          THEN [value |-> r.result[1], unit |-> r.result[2],
                                description |-> r.result[3]]
                          ELSE all_data[n]]
                  ELSE all_data
             /\ idx' = idx + 1
             /\ UNCHANGED <<call, ret>>
    /\ UNCHANGED <<mem, op, arg>>
    /\ wifiIdle

\* get_all_sensor_data, lines 123-130: one iteration of the loop
GetAllIter ==
    /\ call = "all"
    /\ idx <= Len(_REG_MAP)
    /\ \E delivered \in 0..MaxDelivered :
          LET register_name == _REG_MAP[idx][1]
              r == get_sensor_data(register_name, delivered)
          IN /\ bus' = bus \o r.reads
             /\ raw' = r.raw
             /\ IF r.kind = "return"
                THEN /\ all_data' =
                          [n \in DOMAIN all_data \cup {register_name} |->
                              IF n = register_name
                              THEN [value |-> r.result[1], unit |-> r.result[2],
                                    description |-> r.result[3]]
                              ELSE all_data[n]]
                     /\ idx' = idx + 1
                     /\ UNCHANGED <<call, ret>>
                ELSE \* the ValueError leaves get_all_sensor_data
                     /\ ret' = [kind |-> r.kind, msg |-> r.msg, result |-> r.result]
                     /\ call' = "done"
                     /\ UNCHANGED <<all_data, idx>>
    /\ UNCHANGED <<mem, op, arg>>
    /\ wifiIdle

\* mutant: the loop ends one row early
GetAllReturnEarly ==
    /\ call = "all"
    /\ idx >= Len(_REG_MAP)
    /\ ret' = [kind |-> "return", msg |-> "", result |-> all_data]
    /\ call' = "done"
    /\ UNCHANGED <<mem, op, arg, idx, all_data, bus, raw>>
    /\ wifiIdle

\* get_all_sensor_data, line 131: return all_data
GetAllReturn ==
    /\ call = "all"
    /\ idx > Len(_REG_MAP)
    /\ ret' = [kind |-> "return", msg |-> "", result |-> all_data]
    /\ call' = "done"
    /\ UNCHANGED <<mem, op, arg, idx, all_data, bus, raw>>
    /\ wifiIdle

\* the caller has taken the outcome and the call's frame is gone; the sensor
\* takes a new measurement
NextMeasurement ==
    /\ call = "done"
    /\ call' = "idle"
    /\ mem' \in MemImages
    /\ op' = "none"
    /\ arg' = ""
    /\ idx' = 1
    /\ all_data' = <<>>
    /\ bus' = <<>>
    /\ raw' = <<>>
    /\ ret' = NoOutcome
    /\ wifiIdle

SensorInit ==
    /\ mem \in MemImages
    /\ call = "idle"
    /\ op = "none"
    /\ arg = ""
    /\ idx = 1
    /\ all_data = <<>>
    /\ bus = <<>>
    /\ raw = <<>>
    /\ ret = NoOutcome

sensorIdle == UNCHANGED sensorVars

(***************************************************************************)
(* main.py                                                                 *)
(*                                                                         *)
(* Text is a sequence of characters over "z" (a letter), "Q" (the single   *)
(* quote), "BSLASH" (the backslash) and "NL" (the newline); the fixed      *)
(* texts the writer emits are kept as one element each: "SSID",            *)
(* "PASSWORD" and "EQ" (" = ").                                            *)
(***************************************************************************)
max_attempts == 10

\* values typed into the form's two fields
FormStrings == {
    <<"z">>,
    <<"z", "z">>,
    <<"z", "BSLASH", "z">>,
    <<"Q">>,
    <<"z", "Q", "z">>,
    <<"BSLASH">>,
    <<"BSLASH", "Q">>,
    <<"NL">> }

\* save_wifi_credentials: the text written to CREDENTIALS_FILE
save_wifi_credentials(ssid, password) ==
    <<"SSID", "EQ", "Q">> \o ssid \o <<"Q", "NL">>
    \o <<"PASSWORD", "EQ", "Q">> \o password \o <<"Q", "NL">>

\* `from wifi_config import SSID, PASSWORD': the interpreter reads the text as
\* Python source.  Each logical line is  [NAME = ] literal [literal ...]
\* with single-quoted and triple-quoted literals, backslash escapes inside a
\* literal, backslash-newline joining lines, and adjacent literals concatenated.
\* Anything else (a bare name, an unterminated literal, text after a literal)
\* fails the import, as does a name left unassigned.
\*   mode "start" : at the start of a logical line
\*        "expr"  : after NAME = , a literal must follow
\*        "s1"    : inside a single-quoted literal
\*        "s3"    : inside a triple-quoted literal
\*        "after" : after a literal
LoadError(kind) == [ok |-> FALSE, error |-> kind, SSID |-> <<>>, PASSWORD |-> <<>>]

RECURSIVE Parse(_, _, _, _, _, _)
Parse(f, i, mode, tgt, acc, env) ==
    LET n == Len(f)
        t == IF i <= n THEN f[i] ELSE "EOF"
        t1 == IF i + 1 <= n THEN f[i + 1] ELSE "EOF"
        t2 == IF i + 2 <= n THEN f[i + 2] ELSE "EOF"
        bind == IF tgt = "" THEN env
                ELSE [x \in DOMAIN env \cup {tgt} |-> IF x = tgt THEN acc ELSE env[x]]
        open == IF t1 = "Q" /\ t2 = "Q"
                THEN Parse(f, i + 3, "s3", tgt, acc, env)
                ELSE Parse(f, i + 1, "s1", tgt, acc, env)
        finish(e) == IF {"SSID", "PASSWORD"} \subseteq DOMAIN e
                     THEN [ok |-> TRUE, error |-> "", SSID |-> e["SSID"],
                           PASSWORD |-> e["PASSWORD"]]
                     ELSE LoadError("ImportError")
        escape(m) ==
            CASE t1 = "EOF" -> LoadError("SyntaxError")
              [] t1 = "NL" -> Parse(f, i + 2, m, tgt, acc, env)
              [] t1 = "Q" -> Parse(f, i + 2, m, tgt, Append(acc, "Q"), env)
              [] t1 = "BSLASH" -> Parse(f, i + 2, m, tgt, Append(acc, "BSLASH"), env)
              [] OTHER -> Parse(f, i + 2, m, tgt, acc \o <<"BSLASH", t1>>, env)
        bad == LoadError(IF t = "z" /\ t1 \in {"NL", "EOF"}
                         THEN "NameError" ELSE "SyntaxError")
    IN CASE mode = "start" ->
              (CASE t = "EOF" -> finish(env)
                 [] t = "NL" -> Parse(f, i + 1, "start", "", <<>>, env)
                 [] t \in {"SSID", "PASSWORD"} /\ t1 = "EQ" ->
                        Parse(f, i + 2, "expr", t, <<>>, env)
                 [] t = "Q" -> open
                 [] t = "BSLASH" /\ t1 = "NL" -> Parse(f, i + 2, "start", "", <<>>, env)
                 [] OTHER -> bad)
         [] mode = "expr" ->
              (CASE t = "Q" -> open
                 [] t = "BSLASH" /\ t1 = "NL" -> Parse(f, i + 2, "expr", tgt, acc, env)
                 [] OTHER -> bad)
         [] mode = "s1" ->
              (CASE t \in {"EOF", "NL"} -> LoadError("SyntaxError")
                 [] t = "Q" -> Parse(f, i + 1, "after", tgt, acc, env)
                 [] t = "BSLASH" -> escape("s1")
                 [] OTHER -> Parse(f, i + 1, "s1", tgt, Append(acc, t), env))
         [] mode = "s3" ->
              (CASE t = "EOF" -> LoadError("SyntaxError")
                 [] t = "Q" /\ t1 = "Q" /\ t2 = "Q" ->
                        Parse(f, i + 3, "after", tgt, acc, env)
                 [] t = "BSLASH" -> escape("s3")
                 [] OTHER -> Parse(f, i + 1, "s3", tgt, Append(acc, t), env))
         [] mode = "after" ->
              (CASE t = "Q" -> open
                 [] t = "BSLASH" /\ t1 = "NL" -> Parse(f, i + 2, "after", tgt, acc, env)
                 [] t = "NL" -> Parse(f, i + 1, "start", "", <<>>, bind)
                 [] t = "EOF" -> finish(bind)
                 [] OTHER -> LoadError("SyntaxError"))

\* the module wifi_config as imported from the text of wifi_config.py
import_wifi_config(text) == Parse(text, 1, "start", "", <<>>, <<>>)

\* positions of the program inside start_ap_mode
APMode == {"ap_wait", "ap_serving"}

\* main.py line 8 (and the definitions up to line 131): the module is imported
\* from the persisted text; a failed import ends the program
Boot ==
    /\ pc = "boot"
    /\ LET m == import_wifi_config(file)
       IN IF m.ok
          THEN /\ SSID' = m.SSID
               /\ PASSWORD' = m.PASSWORD
               /\ pc' = "connect_wifi"
               /\ exc' = "none"
          ELSE /\ pc' = "crashed"
               /\ exc' = m.error
               /\ UNCHANGED <<SSID, PASSWORD>>
    /\ UNCHANGED <<file, link, sta_active, ap_active, ap_up, curr_attempt, waits,
                   polls, connects, timer_armed, events, submitted, expected,
                   entered_ap, was_connected, sensor, served, resets>>
    /\ sensorIdle

\* connect_wifi, lines 43-49: activate the station interface, poll once, and
\* ask for association if not connected (it may complete at once)
cw_begin ==
    /\ pc = "connect_wifi"
    /\ curr_attempt' = 0
    /\ sta_active' = TRUE
    /\ polls' = Append(polls, link)
    /\ IF ~link
       THEN /\ connects' = Append(connects, <<SSID, PASSWORD>>)
            /\ link' \in BOOLEAN
            /\ pc' = "cw_while"
       ELSE /\ pc' = "cw_done"
            /\ UNCHANGED <<connects, link>>
    /\ UNCHANGED <<file, SSID, PASSWORD, ap_active, ap_up, waits, exc, timer_armed,
                   events, submitted, expected, entered_ap, was_connected, sensor,
                   served, resets>>
    /\ sensorIdle

\* connect_wifi, line 50: the loop's test
cw_while ==
    /\ pc = "cw_while"
    /\ polls' = Append(polls, link)
    /\ pc' = IF ~link THEN "cw_sleep" ELSE "cw_done"
    /\ UNCHANGED <<file, SSID, PASSWORD, link, sta_active, ap_active, ap_up,
                   curr_attempt, waits, connects, exc, timer_armed, events,
                   submitted, expected, entered_ap, was_connected, sensor, served,
                   resets>>
    /\ sensorIdle

\* connect_wifi, lines 51-53: one second passes, during which the association
\* may complete (or be lost); the attempt is counted
cw_sleep ==
    /\ pc = "cw_sleep"
    /\ link' \in BOOLEAN
    /\ waits' = waits + 1
    /\ curr_attempt' = curr_attempt + 1
    /\ pc' = "cw_check"
    /\ UNCHANGED <<file, SSID, PASSWORD, sta_active, ap_active, ap_up, polls,
                   connects, exc, timer_armed, events, submitted, expected,
                   entered_ap, was_connected, sensor, served, resets>>
    /\ sensorIdle

\* mutant: the budget is tested with > instead of >=
cw_check_late ==
    /\ pc = "cw_check"
    /\ IF curr_attempt > max_attempts
       THEN /\ sta_active' = FALSE
            /\ link' = FALSE
            /\ exc' = "WifiConnectionError"
            /\ pc' = "except"
       ELSE /\ pc' = "cw_while"
            /\ UNCHANGED <<sta_active, link, exc>>
    /\ UNCHANGED <<file, SSID, PASSWORD, ap_active, ap_up, curr_attempt, waits,
                   polls, connects, timer_armed, events, submitted, expected,
                   entered_ap, was_connected, sensor, served, resets>>
    /\ sensorIdle

\* mutant: the station interface is left active when giving up
cw_check_keeps_sta ==
    /\ pc = "cw_check"
    /\ IF curr_attempt >= max_attempts
       THEN /\ exc' = "WifiConnectionError"
            /\ pc' = "except"
       ELSE /\ pc' = "cw_while"
            /\ UNCHANGED exc
    /\ UNCHANGED <<file, SSID, PASSWORD, link, sta_active, ap_active, ap_up,
                   curr_attempt, waits, polls, connects, timer_armed, events,
                   submitted, expected, entered_ap, was_connected, sensor, served,
                   resets>>
    /\ sensorIdle

\* connect_wifi, lines 54-56: give up when the budget is spent (the interface
\* is switched off, which drops any association), else back to the loop's test
cw_check ==
    /\ pc = "cw_check"
    /\ IF curr_attempt >= max_attempts
       THEN /\ sta_active' = FALSE
            /\ link' = FALSE
            /\ exc' = "WifiConnectionError"
            /\ pc' = "except"
       ELSE /\ pc' = "cw_while"
            /\ UNCHANGED <<sta_active, link, exc>>
    /\ UNCHANGED <<file, SSID, PASSWORD, ap_active, ap_up, curr_attempt, waits,
                   polls, connects, timer_armed, events, submitted, expected,
                   entered_ap, was_connected, sensor, served, resets>>
    /\ sensorIdle

\* connect_wifi, lines 57-58: return; the try statement of line 132 is left
cw_return ==
    /\ pc = "cw_done"
    /\ was_connected' = TRUE
    /\ pc' = "main_139"
    /\ UNCHANGED <<file, SSID, PASSWORD, link, sta_active, ap_active, ap_up,
                   curr_attempt, waits, polls, connects, exc, timer_armed, events,
                   submitted, expected, entered_ap, sensor, served, resets>>
    /\ sensorIdle

\* mutant: the WifiConnectionError is not caught
start_ap_mode_uncaught ==
    /\ pc = "except"
    /\ exc = "WifiConnectionError"
    /\ pc' = "crashed"
    /\ UNCHANGED <<file, SSID, PASSWORD, link, sta_active, ap_active, ap_up,
                   curr_attempt, waits, polls, connects, exc, timer_armed, events,
                   submitted, expected, entered_ap, was_connected, sensor, served,
                   resets>>
    /\ sensorIdle

\* main.py lines 135-137 and start_ap_mode lines 66-70: the exception is caught
\* and the access point is switched on
start_ap_mode ==
    /\ pc = "except"
    /\ exc = "WifiConnectionError"
    /\ exc' = "none"
    /\ entered_ap' = TRUE
    /\ ap_active' = TRUE
    /\ ap_up' \in BOOLEAN
    /\ pc' = "ap_wait"
    /\ UNCHANGED <<file, SSID, PASSWORD, link, sta_active, curr_attempt, waits,
                   polls, connects, timer_armed, events, submitted, expected,
                   was_connected, sensor, served, resets>>
    /\ sensorIdle

\* start_ap_mode lines 73-79 and 128: wait for the access point, then run the
\* credential-form server
ap_wait ==
    /\ pc = "ap_wait"
    /\ IF ap_up
       THEN /\ pc' = "ap_serving"
            /\ UNCHANGED ap_up
       ELSE /\ ap_up' \in BOOLEAN
            /\ UNCHANGED pc
    /\ UNCHANGED <<file, SSID, PASSWORD, link, sta_active, ap_active, curr_attempt,
                   waits, polls, connects, exc, timer_armed, events, submitted,
                   expected, entered_ap, was_connected, sensor, served, resets>>
    /\ sensorIdle

\* start_ap_mode.form: GET / in AP mode returns the form
form ==
    /\ pc = "ap_serving"
    /\ ap_up
    /\ UNCHANGED wifiVars
    /\ sensorIdle

\* start_ap_mode.submit: POST /submit writes the credentials, switches the
\* access point off and arms the reboot timer
submit ==
    /\ pc = "ap_serving"
    /\ ap_up
    /\ \E ssid \in FormStrings, password \in FormStrings :
          /\ file' = save_wifi_credentials(ssid, password)
          /\ submitted' = <<ssid, password>>
    /\ ap_active' = FALSE
    /\ ap_up' = FALSE
    /\ timer_armed' = TRUE
    /\ events' = <<"write", "ap_off", "timer">>
    /\ UNCHANGED <<pc, SSID, PASSWORD, link, sta_active, curr_attempt, waits, polls,
                   connects, exc, expected, entered_ap, was_connected, sensor,
                   served, resets>>
    /\ sensorIdle

\* the timer's callback, line 117: machine.reset(); only the file survives
reset ==
    /\ timer_armed
    /\ resets < MaxResets
    /\ resets' = resets + 1
    /\ expected' = submitted
    /\ submitted' = <<>>
    /\ pc' = "boot"
    /\ SSID' = <<>>
    /\ PASSWORD' = <<>>
    /\ link' \in BOOLEAN
    /\ sta_active' = FALSE
    /\ ap_active' = FALSE
    /\ ap_up' = FALSE
    /\ curr_attempt' = 0
    /\ waits' = 0
    /\ polls' = <<>>
    /\ connects' = <<>>
    /\ exc' = "none"
    /\ timer_armed' = FALSE
    /\ events' = <<>>
    /\ entered_ap' = FALSE
    /\ was_connected' = FALSE
    /\ sensor' = FALSE
    /\ served' = 0
    /\ UNCHANGED file
    /\ sensorIdle

\* mutant: the AP-mode server returns and the program runs on
main_setup_after_ap ==
    /\ pc \in {"main_139", "ap_serving"}
    /\ sensor' = TRUE
    /\ pc' = "serving"
    /\ UNCHANGED <<file, SSID, PASSWORD, link, sta_active, ap_active, ap_up,
                   curr_attempt, waits, polls, connects, exc, timer_armed, events,
                   submitted, expected, entered_ap, was_connected, served, resets>>
    /\ sensorIdle

\* main.py lines 139-167: the app and the sensor are constructed and the
\* sensor-page server runs
main_setup ==
    /\ pc = "main_139"
    /\ sensor' = TRUE
    /\ pc' = "serving"
    /\ UNCHANGED <<file, SSID, PASSWORD, link, sta_active, ap_active, ap_up,
                   curr_attempt, waits, polls, connects, exc, timer_armed, events,
                   submitted, expected, entered_ap, was_connected, served, resets>>
    /\ sensorIdle

\* index: GET / renders the sensor-data page (the decoding itself is
\* GetAllBegin .. GetAllReturn)
index ==
    /\ pc = "serving"
    /\ served < MaxServed
    /\ served' = served + 1
    /\ UNCHANGED <<pc, file, SSID, PASSWORD, link, sta_active, ap_active, ap_up,
                   curr_attempt, waits, polls, connects, exc, timer_armed, events,
                   submitted, expected, entered_ap, was_connected, sensor, resets>>
    /\ sensorIdle

\* wifi_config.py as flashed with the program
InitialCredentials == {<<(<<"z">>), (<<"z", "z">>)>>}

WifiInit ==
    /\ pc = "boot"
    /\ \E c \in InitialCredentials : file = save_wifi_credentials(c[1], c[2])
    /\ SSID = <<>>
    /\ PASSWORD = <<>>
    /\ link \in BOOLEAN
    /\ sta_active = FALSE
    /\ ap_active = FALSE
    /\ ap_up = FALSE
    /\ curr_attempt = 0
    /\ waits = 0
    /\ polls = <<>>
    /\ connects = <<>>
    /\ exc = "none"
    /\ timer_armed = FALSE
    /\ events = <<>>
    /\ submitted = <<>>
    /\ expected = <<>>
    /\ entered_ap = FALSE
    /\ was_connected = FALSE
    /\ sensor = FALSE
    /\ served = 0
    /\ resets = 0

(***************************************************************************)
(* Specifications                                                          *)
(***************************************************************************)
Init == SensorInit /\ WifiInit

SensorNext ==
    \/ GetSensorData
    \/ GetAllBegin
    \/ GetAllIter
    \/ GetAllReturn
    \/ NextMeasurement

WifiNext ==
    \/ Boot
    \/ cw_begin
    \/ cw_while
    \/ cw_sleep
    \/ cw_check
    \/ cw_return
    \/ start_ap_mode
    \/ ap_wait
    \/ form
    \/ submit
    \/ reset
    \/ main_setup
    \/ index

\* the decoder, called over and over
SpecSensor == Init /\ [][SensorNext]_vars

\* the program from power-up, through resets
SpecWifi == Init /\ [][WifiNext]_vars

(***************************************************************************)
(* Properties of the decoder (checked under SpecSensor)                    *)
(***************************************************************************)
\* the table's rows, and the row of a name of the table
Rows == 1..Len(_REG_MAP)
RowOf(name) == CHOOSE i \in Rows : _REG_MAP[i][1] = name

\* the unsigned big-endian integer of one or two bytes, written out
BigEndian(bytes) ==
    IF Len(bytes) = 1 THEN bytes[1] ELSE 256 * bytes[1] + bytes[2]

\* a finished call of get_sensor_data / of get_all_sensor_data
SingleDone == op = "get_sensor_data" /\ call = "done"
AllDone == op = "get_all_sensor_data" /\ call = "done"

\* every transaction among the first k handed back as many bytes as asked for
FullReads(k) == \A j \in 1..k : bus[j][4] = bus[j][3]

\* C1: for every descriptor, when the read hands back exactly the declared
\* number of bytes (the register's bytes), get_sensor_data returns the
\* big-endian unsigned integer of those bytes times the descriptor's scale
\* (in tenths: scale 1 is 10, scale 0.1 is 1) together with that descriptor's
\* unit and description.
C1_DecodeScaled ==
    \A i \in Rows :
        (SingleDone /\ arg = _REG_MAP[i][1] /\ Len(raw) = _REG_MAP[i][3]) =>
            /\ \A k \in 1..Len(raw) : raw[k] = MemByte(_REG_MAP[i][2] + k - 1)
            /\ ret.kind = "return"
            /\ ret.result = <<BigEndian(raw) * _REG_MAP[i][4],
                              _REG_MAP[i][5], _REG_MAP[i][6]>>

\* C1 witness: bytes 0x00 0x64 at scale 0.1 gave 100 tenths, i.e. 10.0
C1_Witness ==
    /\ SingleDone
    /\ arg = "T-comp"
    /\ raw = <<0, 100>>
    /\ ret.kind = "return"
    /\ ret.result = <<100, "C", "Compensated Temperature">>

\* C6: for every descriptor, a read that hands back a number of bytes other
\* than the declared width makes get_sensor_data raise the length ValueError
\* and return no tuple; no value is ever reported (by get_sensor_data, or as
\* an entry of get_all_sensor_data's mapping) from such a read.
C6_WrongLengthRaises ==
    /\ \A i \in Rows :
          (SingleDone /\ arg = _REG_MAP[i][1]) =>
              /\ Len(bus) = 1 /\ Len(raw) = bus[1][4]
              /\ (Len(raw) # _REG_MAP[i][3]) =>
                    (ret.kind = "ValueError" /\ ret.msg = "Expected bytes"
                     /\ ret.result = <<>>)
              /\ (ret.kind = "return") => (Len(raw) = _REG_MAP[i][3])
    /\ (op = "get_all_sensor_data") =>
          \A k \in 1..Len(bus) :
              (_REG_MAP[k][1] \in DOMAIN all_data) => (bus[k][4] = _REG_MAP[k][3])

\* C6 witness: a read of a two-byte register handed back three bytes and the
\* call raised
C6_Witness ==
    /\ SingleDone
    /\ arg \in RegNames
    /\ _REG_MAP[RowOf(arg)][3] = 2
    /\ Len(raw) = 3
    /\ ret.kind = "ValueError"

\* C9: for every name that is not in the table get_sensor_data raises the
\* not-found ValueError and the bus has seen no transaction.
C9_UnknownRegisterNoRead ==
    (SingleDone /\ arg \notin RegNames) =>
        /\ ret.kind = "ValueError"
        /\ ret.msg = "Register not found"
        /\ ret.result = <<>>
        /\ bus = <<>>

\* C9 witness: a call with a name that is not in the table has failed
C9_Witness ==
    /\ SingleDone
    /\ arg = "pm10"
    /\ ret.kind = "ValueError"

\* C8: a mapping returned by get_all_sensor_data has exactly the table's 10
\* names as keys, each entry holding what get_sensor_data returns for that
\* name, after exactly one read per row in table order; and it is returned
\* whenever every read handed back the declared width.
C8_AllRowsOnce ==
    AllDone =>
        /\ (ret.kind = "return") =>
              /\ DOMAIN ret.result = RegNames
              /\ Cardinality(DOMAIN ret.result) = Len(_REG_MAP)
              /\ Cardinality(DOMAIN ret.result) = 10
              /\ \A i \in Rows :
                    LET one == get_sensor_data(_REG_MAP[i][1], _REG_MAP[i][3])
                    IN ret.result[_REG_MAP[i][1]] =
                          [value |-> one.result[1], unit |-> one.result[2],
                           description |-> one.result[3]]
              /\ bus = [i \in Rows |-> <<device_addr, _REG_MAP[i][2],
                                         _REG_MAP[i][3], _REG_MAP[i][3]>>]
        /\ FullReads(Len(bus)) => (ret.kind = "return")

\* C8 witness: a bulk call over a register file with distinct bytes returned
C8_Witness ==
    /\ AllDone
    /\ ret.kind = "return"
    /\ mem = "own_address"
    /\ ret.result["T-comp"].value = 256 * 34 + 35

\* C10: when a read of get_all_sensor_data hands back a wrong byte count, the
\* call raises the length ValueError and returns no mapping; the failing read
\* is the last one on the bus, the reads before it are the rows before it in
\* table order, and the loop never runs on after a failed read.
C10_BulkAborts ==
    /\ (op = "get_all_sensor_data" /\ call = "all") => FullReads(Len(bus))
    /\ (AllDone /\ ~FullReads(Len(bus))) =>
          /\ ret.kind = "ValueError"
          /\ ret.msg = "Expected bytes"
          /\ ret.result = <<>>
          /\ FullReads(Len(bus) - 1)
          /\ \A k \in 1..Len(bus) :
                bus[k][2] = _REG_MAP[k][2] /\ bus[k][3] = _REG_MAP[k][3]

\* C10 witness: the fourth read failed after three good ones
C10_Witness ==
    /\ AllDone
    /\ ret.kind = "ValueError"
    /\ Len(bus) = 4
    /\ Cardinality(DOMAIN all_data) = 3

(***************************************************************************)
(* Properties of the bootstrap (checked under SpecWifi)                    *)
(***************************************************************************)
\* the bootstrap's state in the current run
Phase ==
    IF entered_ap THEN "APMode"
    ELSE IF was_connected THEN "Connected"
    ELSE "TryStored"

\* C2: in every run connect_wifi makes at most 10 one-second waits and at
\* most one association request, and WifiConnectionError is raised only
\* after 10 waits, all status polls so far having reported not connected.
C2_BoundedAttempts ==
    /\ waits <= 10
    /\ curr_attempt = waits
    /\ Len(connects) <= 1
    /\ (exc = "WifiConnectionError" \/ entered_ap) =>
          /\ waits = 10
          /\ Len(connects) = 1
          /\ \A i \in 1..Len(polls) : ~polls[i]

\* C2 witness: the error has been raised after the tenth wait
C2_Witness ==
    /\ exc = "WifiConnectionError"
    /\ waits = 10
    /\ Len(connects) = 1

\* C3 (as claimed): the status is polled after every wait, the tenth
\* included, so a run whose interface is connected when a wait ends does not
\* go on to raise WifiConnectionError and enter APMode.
C3_PolledAfterEveryWait ==
    [][(pc = "cw_check" /\ link) => (pc' # "except")]_vars

\* C4: the bootstrap moves only TryStored -> Connected and TryStored ->
\* APMode; in APMode no association is requested, the sensor is not
\* constructed and no sensor page is served, and APMode is left only by a
\* reset that starts the program again; sensor pages are served only in runs
\* that reached Connected.
C4_APModeIsFinal ==
    [][ /\ (Phase' # Phase) =>
              \/ Phase = "TryStored" /\ Phase' \in {"Connected", "APMode"}
              \/ Phase = "APMode" /\ Phase' = "TryStored" /\ pc' = "boot"
                 /\ resets' = resets + 1
        /\ (Phase' = "APMode") =>
              /\ pc' \in APMode
              /\ ~sensor'
              /\ served' = 0
              /\ (Phase = "APMode" => connects' = connects)
        /\ (served' > 0 \/ pc' = "serving") =>
              (Phase' = "Connected" /\ sensor')
      ]_vars

\* C4 witness: credentials were submitted in APMode and the program is still
\* in the credential-form server
C4_Witness ==
    /\ Phase = "APMode"
    /\ pc = "ap_serving"
    /\ submitted # <<>>
    /\ timer_armed

\* C5 (as claimed): in a run begun by the reset that followed a submission,
\* every association request is made with exactly the submitted ssid and
\* password.
C5_CredentialsRoundTrip ==
    (expected # <<>>) =>
        \A i \in 1..Len(connects) : connects[i] = expected

\* C7: a raised WifiConnectionError is caught by the next step of the main
\* program, which enters start_ap_mode and switches the access point on; the
\* server starts once the access point reports active; the program never
\* ends on that exception, and the station interface is inactive throughout
\* APMode.
C7_ErrorLeadsToAPMode ==
    [][ /\ (exc = "WifiConnectionError") =>
              /\ pc = "except"
              /\ pc' = "ap_wait"
              /\ exc' = "none"
              /\ ap_active'
              /\ entered_ap'
        /\ (pc = "ap_wait" /\ ap_up) => (pc' = "ap_serving" /\ ap_active')
        /\ (pc' \in APMode) => ~sta_active'
        /\ (pc' = "crashed") => (exc' \in {"SyntaxError", "NameError", "ImportError"})
      ]_vars

\* C7 witness: the credential-form server runs after the tenth wait
C7_Witness ==
    /\ pc = "ap_serving"
    /\ ap_active
    /\ ap_up
    /\ ~sta_active
    /\ waits = 10

====
